---- MODULE Spec2Model ----
(***************************************************************************)
(* Model of TrafficManager/source/pipeline/LocalizationStage.cpp: the      *)
(* per-vehicle horizon-buffer pass (LocalizationStage::Action) and the     *)
(* generation-counted frame handoff (LocalizationStage::DataSender).       *)
(* Messenger, PipelineStage, TrafficDistributor, InMemoryMap and the       *)
(* geometry helpers live outside this file; they are modelled from their   *)
(* documented contract.                                                    *)
(***************************************************************************)
EXTENDS Integers, Sequences, FiniteSets, TLC

(* ------------------------------ bounds --------------------------------- *)
MaxTick == 3
MaxBuf == 7

(* ----------------------- LocalizationConstants -------------------------- *)
WAYPOINT_TIME_HORIZON == 3
MINIMUM_HORIZON_LENGTH == 25
\* TARGET_WAYPOINT_TIME_HORIZON = 0.5f, kept as the divisor of the velocity.
TARGET_WAYPOINT_TIME_HORIZON_DIV == 2
TARGET_WAYPOINT_HORIZON_LENGTH == 2
MINIMUM_JUNCTION_LOOK_AHEAD == 3
\* HIGHWAY_SPEED = 50 / 3.6f = 13.888..., kept as the fraction 500 / 36.
HIGHWAY_SPEED_NUM == 500
HIGHWAY_SPEED_DEN == 36

(* Fixed-point unit of the cosine / sine returned by the geometry helpers. *)
Scale == 100

Max(a, b) == IF a >= b THEN a ELSE b

(* ------------------------------- world ---------------------------------- *)
\* Waypoints are addressed by integer id; 0 stands for nullptr.
Waypoints == 1..10
NullWaypoint == 0

\* A 26 x 26 loop sampled every 13 units (ids 1..8, anticlockwise) with a
\* second lane (ids 9, 10) along the bottom edge, one unit inside: waypoint
\* 10 lies exactly 25 units, the minimum horizon, from waypoint 5.
Loc == <<
  <<0, 0>>, <<13, 0>>, <<26, 0>>, <<26, 13>>, <<26, 26>>,
  <<13, 26>>, <<0, 26>>, <<0, 13>>, <<13, 1>>, <<26, 1>> >>

\* GeoIds = (road id, section id, lane id) of a waypoint.
RoadIds == <<
  <<1, 0, -1>>, <<1, 0, -1>>, <<1, 1, -1>>, <<2, 0, -1>>, <<3, 0, -1>>,
  <<3, 0, -1>>, <<3, 1, -1>>, <<4, 0, -1>>, <<1, 0, -2>>, <<1, 1, -2>> >>

JunctionWaypoints == {3, 5, 10}

\* Forward unit vector of a vehicle standing on the waypoint.
Heading == <<
  <<1, 0>>, <<1, 0>>, <<0, 1>>, <<0, 1>>, <<-1, 0>>,
  <<-1, 0>>, <<0, -1>>, <<0, -1>>, <<1, 0>>, <<0, 1>> >>

\* Successor lists per map. "loop": the full network, every waypoint has a
\* successor and waypoint 1 opens into both lanes. "deadend": the road ends
\* at waypoint 4, the bottom edge is a single lane up to junction 3, which
\* branches into 4 and 10. "roundabout": the two bottom lanes closed into a
\* 13 x 1 circuit (2 -> 3 -> 10 -> 9 -> 2).
Maps == {"loop", "deadend", "roundabout"}
Successors(m) ==
  CASE m = "loop" ->
         << <<2, 9>>, <<3>>, <<4>>, <<5>>, <<6>>, <<7>>, <<8>>, <<1>>, <<10>>, <<4>> >>
    [] m = "deadend" ->
         << <<2>>, <<3>>, <<4, 10>>, <<>>, <<6>>, <<7>>, <<8>>, <<1>>, <<10>>, <<4>> >>
    [] m = "roundabout" ->
         << <<2>>, <<3>>, <<10>>, <<5>>, <<6, 7>>, <<7>>, <<8>>, <<1>>, <<2>>, <<9>> >>

ValidMap(m) == \A w \in Waypoints : Len(Successors(m)[w]) >= 1

\* Change-over points the lane-change heuristic can propose from a waypoint.
ChangeOver(w) ==
  CASE w = 1 -> {9}
    [] w = 2 -> {10}
    [] w = 9 -> {3}
    [] OTHER -> {}

\* The fleet handed to the constructor: actor ids in slot order.
ActorList == <<101, 102>>
NoActor == 0
number_of_vehicles == Len(ActorList)
VehicleIndices == 0..(number_of_vehicles - 1)
ActorAt(i) == ActorList[i + 1]
\* vehicle_id_to_index, built by the constructor loop.
vehicle_id_to_index == [id \in {ActorList[k] : k \in 1..Len(ActorList)} |->
                          (CHOOSE k \in 1..Len(ActorList) : ActorList[k] = id) - 1]
ActorIds == DOMAIN vehicle_id_to_index

\* Posted speed limit of each vehicle.
SpeedLimit(i) == IF i = 0 THEN 30 ELSE 10
Velocities == {0, 9}
StartWaypoint == <<1, 2>>
\* Slots of the vehicles that stay parked at their start waypoint.
Parked == {1}

\* Index partitions handed to the workers: <<start_index, end_index>>.
Partitions == << <<0, 0>>, <<1, 1>> >>
Workers == 1..Len(Partitions)
StartIndex(w) == Partitions[w][1]
EndIndex(w) == Partitions[w][2]

(* --------------------------- geometry helpers --------------------------- *)
DistanceSquared(w1, w2) ==
  (Loc[w1][1] - Loc[w2][1]) * (Loc[w1][1] - Loc[w2][1]) +
  (Loc[w1][2] - Loc[w2][2]) * (Loc[w1][2] - Loc[w2][2])

LocDistanceSquared(p, q) ==
  (p[1] - q[1]) * (p[1] - q[1]) + (p[2] - q[2]) * (p[2] - q[2])

ISqrt(n) == CHOOSE r \in 0..Scale : r * r <= n /\ (r + 1) * (r + 1) > n

\* Scale * |num| / sqrt(d2), rounded down, for 0 <= |num| <= sqrt(d2).
ScaledRatio(num, d2) == ISqrt((num * num * Scale * Scale) \div d2)

\* Cosine (x Scale) between the vehicle heading and the direction to target;
\* 0 when the target coincides with the vehicle.
DeviationDotProduct(veh, target) ==
  LET d == <<target[1] - Loc[veh.wp][1], target[2] - Loc[veh.wp][2]>>
      h == Heading[veh.wp]
      num == h[1] * d[1] + h[2] * d[2]
      d2 == d[1] * d[1] + d[2] * d[2]
  IN IF d2 = 0 THEN 0
     ELSE IF num >= 0 THEN ScaledRatio(num, d2) ELSE -ScaledRatio(-num, d2)

\* Sine (x Scale): z component of heading x direction-to-target.
DeviationCrossProduct(veh, target) ==
  LET d == <<target[1] - Loc[veh.wp][1], target[2] - Loc[veh.wp][2]>>
      h == Heading[veh.wp]
      num == h[1] * d[2] - h[2] * d[1]
      d2 == d[1] * d[1] + d[2] * d[2]
  IN IF d2 = 0 THEN 0
     ELSE IF num >= 0 THEN ScaledRatio(num, d2) ELSE -ScaledRatio(-num, d2)

\* InMemoryMap::GetWaypoint: the waypoint nearest to a location.
GetWaypoint(loc) ==
  CHOOSE w \in Waypoints :
    \A u \in Waypoints :
      \/ LocDistanceSquared(Loc[w], loc) < LocDistanceSquared(Loc[u], loc)
      \/ (LocDistanceSquared(Loc[w], loc) = LocDistanceSquared(Loc[u], loc) /\ w <= u)

(* ------------------- the per-vehicle pass of Action --------------------- *)
\* Variant: the velocity term of the horizon forgotten.
HorizonSize_FloorOnly(veh) == MINIMUM_HORIZON_LENGTH

\* A vehicle is [wp |-> waypoint it stands on, vel |-> |velocity|].
HorizonSize(veh) == Max(WAYPOINT_TIME_HORIZON * veh.vel, MINIMUM_HORIZON_LENGTH)

\* std::ceil(vehicle_velocity * 0.5f) for a non-negative integer velocity.
CeilHalf(v) == (v + TARGET_WAYPOINT_TIME_HORIZON_DIV - 1) \div TARGET_WAYPOINT_TIME_HORIZON_DIV
TargetPointDistance(veh) == Max(CeilHalf(veh.vel), TARGET_WAYPOINT_HORIZON_LENGTH)
LookAheadDistance(veh) == Max(2 * veh.vel, MINIMUM_JUNCTION_LOOK_AHEAD)

\* Variant: only the lane ids of the two fronts are compared.
NeedsResync_LaneOnly(waypoint_buffer, copy_waypoint_buffer) ==
  /\ waypoint_buffer # <<>>
  /\ copy_waypoint_buffer # <<>>
  /\ RoadIds[Head(copy_waypoint_buffer)][3] # RoadIds[Head(waypoint_buffer)][3]

\* "Synchronizing buffer copies in case the path of the vehicle has changed."
NeedsResync(waypoint_buffer, copy_waypoint_buffer) ==
  /\ waypoint_buffer # <<>>
  /\ copy_waypoint_buffer # <<>>
  /\ \/ RoadIds[Head(copy_waypoint_buffer)][3] # RoadIds[Head(waypoint_buffer)][3]
     \/ RoadIds[Head(copy_waypoint_buffer)][2] # RoadIds[Head(waypoint_buffer)][2]
     \/ RoadIds[Head(copy_waypoint_buffer)][1] # RoadIds[Head(waypoint_buffer)][1]

\* Variant: the copy is assigned without clearing the active buffer first.
Resync_NoClear(waypoint_buffer, copy_waypoint_buffer) ==
  IF NeedsResync(waypoint_buffer, copy_waypoint_buffer)
  THEN waypoint_buffer \o copy_waypoint_buffer
  ELSE waypoint_buffer

Resync(waypoint_buffer, copy_waypoint_buffer) ==
  IF NeedsResync(waypoint_buffer, copy_waypoint_buffer)
  THEN copy_waypoint_buffer
  ELSE waypoint_buffer

\* Variant: every passed waypoint is dropped, wherever it stands in the buffer.
Purge_Everywhere(veh, waypoint_buffer) ==
  LET Ahead(w) == DeviationDotProduct(veh, Loc[w]) > 0
  IN SelectSeq(waypoint_buffer, Ahead)

\* "Purge passed waypoints."
RECURSIVE Purge(_, _)
Purge(veh, waypoint_buffer) ==
  IF waypoint_buffer = <<>> THEN <<>>
  ELSE IF DeviationDotProduct(veh, Loc[Head(waypoint_buffer)]) <= 0
       THEN Purge(veh, Tail(waypoint_buffer))
       ELSE waypoint_buffer

\* Variant: an emptied buffer is not reseeded.
Reseed_Missing(veh, waypoint_buffer) == waypoint_buffer

\* "Initializing buffer if it is empty."
Reseed(veh, waypoint_buffer) ==
  IF waypoint_buffer = <<>> THEN <<GetWaypoint(Loc[veh.wp])>> ELSE waypoint_buffer

\* TrafficDistributor::UpdateVehicleRoadPosition on the registry.
UpdateVehicleRoadPosition(registry, actor_id, ids) ==
  [registry EXCEPT ![actor_id] = ids]

\* Slots of the other vehicles registered on the same road, section and lane:
\* the buffers TrafficDistributor::AssignLaneChange looks at.
CoLaneVehicles(registry, actor_id, ids) ==
  {vehicle_id_to_index[id] : id \in {o \in ActorIds : o # actor_id /\ registry[o] = ids}}

\* Possible results of TrafficDistributor::AssignLaneChange (0 is nullptr).
AssignLaneChange(registry, actor_id, front_waypoint, ids) ==
  IF CoLaneVehicles(registry, actor_id, ids) = {}
  THEN {NullWaypoint}
  ELSE {NullWaypoint} \cup ChangeOver(front_waypoint)

\* Variant: the change-over point is pushed without clearing the buffer.
Redirect_KeepContents(waypoint_buffer, change_over_point) ==
  IF change_over_point # NullWaypoint
  THEN Append(waypoint_buffer, change_over_point)
  ELSE waypoint_buffer

\* if (change_over_point != nullptr) { clear(); push_back(change_over_point); }
Redirect(waypoint_buffer, change_over_point) ==
  IF change_over_point # NullWaypoint
  THEN <<change_over_point>>
  ELSE waypoint_buffer

\* selection_index: 0, or rand() % size when there is more than one choice.
SelectionIndices(size) == IF size > 1 THEN 0..(size - 1) ELSE {0}

\* Variant: a back waypoint without successors ends the growth quietly.
RECURSIVE Populate_StopAtDeadEnd(_, _, _)
Populate_StopAtDeadEnd(m, waypoint_buffer, horizon_size) ==
  IF DistanceSquared(waypoint_buffer[Len(waypoint_buffer)], Head(waypoint_buffer))
       <= horizon_size * horizon_size
  THEN LET next_waypoints == Successors(m)[waypoint_buffer[Len(waypoint_buffer)]] IN
       IF Len(next_waypoints) = 0
       THEN {[buffer |-> waypoint_buffer, status |-> "done"]}
       ELSE IF Len(waypoint_buffer) >= MaxBuf
       THEN {[buffer |-> waypoint_buffer, status |-> "spinning"]}
       ELSE UNION {Populate_StopAtDeadEnd(m, Append(waypoint_buffer, next_waypoints[k + 1]),
                                          horizon_size) :
                     k \in SelectionIndices(Len(next_waypoints))}
  ELSE {[buffer |-> waypoint_buffer, status |-> "done"]}

\* Variant: the loop stops as soon as the back is at the horizon distance.
RECURSIVE Populate_StrictBound(_, _, _)
Populate_StrictBound(m, waypoint_buffer, horizon_size) ==
  IF DistanceSquared(waypoint_buffer[Len(waypoint_buffer)], Head(waypoint_buffer))
       < horizon_size * horizon_size
  THEN LET next_waypoints == Successors(m)[waypoint_buffer[Len(waypoint_buffer)]] IN
       IF Len(next_waypoints) = 0
       THEN {[buffer |-> waypoint_buffer, status |-> "out_of_range"]}
       ELSE IF Len(waypoint_buffer) >= MaxBuf
       THEN {[buffer |-> waypoint_buffer, status |-> "spinning"]}
       ELSE UNION {Populate_StrictBound(m, Append(waypoint_buffer, next_waypoints[k + 1]),
                                        horizon_size) :
                     k \in SelectionIndices(Len(next_waypoints))}
  ELSE {[buffer |-> waypoint_buffer, status |-> "done"]}

\* "Populating the buffer." All results of the while loop; "out_of_range" is
\* next_waypoints.at(0) on an empty vector, "spinning" a loop still running
\* after MaxBuf entries.
RECURSIVE Populate(_, _, _)
Populate(m, waypoint_buffer, horizon_size) ==
  IF DistanceSquared(waypoint_buffer[Len(waypoint_buffer)], Head(waypoint_buffer))
       <= horizon_size * horizon_size
  THEN LET next_waypoints == Successors(m)[waypoint_buffer[Len(waypoint_buffer)]] IN
       IF Len(next_waypoints) = 0
       THEN {[buffer |-> waypoint_buffer, status |-> "out_of_range"]}
       ELSE IF Len(waypoint_buffer) >= MaxBuf
       THEN {[buffer |-> waypoint_buffer, status |-> "spinning"]}
       ELSE UNION {Populate(m, Append(waypoint_buffer, next_waypoints[k + 1]), horizon_size) :
                     k \in SelectionIndices(Len(next_waypoints))}
  ELSE {[buffer |-> waypoint_buffer, status |-> "done"]}

\* The target_waypoint loop; i is the 0-based loop counter.
RECURSIVE TargetLoop(_, _, _, _)
TargetLoop(waypoint_buffer, i, target_waypoint, target_point_distance) ==
  IF /\ i < Len(waypoint_buffer)
     /\ DistanceSquared(Head(waypoint_buffer), target_waypoint)
          < target_point_distance * target_point_distance
  THEN TargetLoop(waypoint_buffer, i + 1, waypoint_buffer[i + 1], target_point_distance)
  ELSE target_waypoint

\* Variant: the walk stops on the last entry still below the threshold.
TargetWaypoint_LastBelow(veh, waypoint_buffer) ==
  LET below(j) == DistanceSquared(Head(waypoint_buffer), waypoint_buffer[j])
                    < TargetPointDistance(veh) * TargetPointDistance(veh)
      last == CHOOSE n \in 1..Len(waypoint_buffer) :
                /\ \A j \in 1..n : below(j)
                /\ n < Len(waypoint_buffer) => ~below(n + 1)
  IN waypoint_buffer[last]

TargetWaypoint(veh, waypoint_buffer) ==
  TargetLoop(waypoint_buffer, 0, Head(waypoint_buffer), TargetPointDistance(veh))

\* planner_message.deviation: 1 - dot, negated when the cross product is < 0.
Deviation(veh, target_waypoint) ==
  LET dot_product == Scale - DeviationDotProduct(veh, Loc[target_waypoint])
  IN IF DeviationCrossProduct(veh, Loc[target_waypoint]) < 0
     THEN -dot_product ELSE dot_product

\* The look_ahead_point loop: [point, index] reached.
RECURSIVE LookAheadLoop(_, _, _, _)
LookAheadLoop(waypoint_buffer, i, la, look_ahead_distance) ==
  IF /\ DistanceSquared(Head(waypoint_buffer), la.point)
          < look_ahead_distance * look_ahead_distance
     /\ i < Len(waypoint_buffer)
  THEN LookAheadLoop(waypoint_buffer, i + 1,
                     [point |-> waypoint_buffer[i + 1], index |-> i], look_ahead_distance)
  ELSE la

LookAhead(veh, waypoint_buffer) ==
  LookAheadLoop(waypoint_buffer, 0, [point |-> Head(waypoint_buffer), index |-> 0],
                LookAheadDistance(veh))

CheckJunction(w) == w \in JunctionWaypoints

\* Variant: a branch at the look-ahead index itself counts as well.
ApproachingJunction_Inclusive(m, speed_limit, waypoint_buffer, la) ==
  IF CheckJunction(la.point) /\ ~CheckJunction(Head(waypoint_buffer))
  THEN IF speed_limit * HIGHWAY_SPEED_DEN > HIGHWAY_SPEED_NUM
       THEN \E i \in 0..la.index : Len(Successors(m)[waypoint_buffer[i + 1]]) > 1
       ELSE TRUE
  ELSE FALSE

\* "Filtering out false junctions on highways."
ApproachingJunction(m, speed_limit, waypoint_buffer, la) ==
  IF CheckJunction(la.point) /\ ~CheckJunction(Head(waypoint_buffer))
  THEN IF speed_limit * HIGHWAY_SPEED_DEN > HIGHWAY_SPEED_NUM
       THEN \E i \in 0..(la.index - 1) : Len(Successors(m)[waypoint_buffer[i + 1]]) > 1
       ELSE TRUE
  ELSE FALSE

(* ------------------------------- state ---------------------------------- *)
Channels == {"planner", "collision", "traffic_light"}
FrameNames == {"a", "b"}
NoFrame == "none"
\* selector ? x_a : x_b
Select(selector) == IF selector THEN "a" ELSE "b"

VARIABLES
  map,                              \* local_map
  vehicle,                          \* simulator state of the actors in actor_list
  tick,                             \* number of ticks started
  pc,                               \* position of the stage inside its tick
  worker,                           \* per worker: loop index i and run state
  planner_frame_selector,
  collision_frame_selector,
  traffic_light_frame_selector,
  buffer_list,                      \* buffer_list_a / buffer_list_b
  planner_frame,                    \* planner_frame_a / planner_frame_b
  collision_frame,                  \* collision_frame_a / collision_frame_b
  traffic_light_frame,              \* traffic_light_frame_a / traffic_light_frame_b
  planner_messenger_state,
  collision_messenger_state,
  traffic_light_messenger_state,
  collision_messenger_current_state,      \* local of DataSender
  traffic_light_messenger_current_state,  \* local of DataSender
  messenger,                        \* the three Messenger objects
  consumer,                         \* the three downstream stages
  road_position,                    \* registry of traffic_distributor
  pass,                             \* record of the last pass over each vehicle
  touched,                          \* per worker: buffer slots accessed this tick
  wrote,                            \* per channel: frame object Action wrote last, and when
  buffer_tick,                      \* per buffer: tick of the pass that last changed it
  nsend                             \* per channel: SendData calls of the latest DataSender

vars == <<map, vehicle, tick, pc, worker, planner_frame_selector,
          collision_frame_selector, traffic_light_frame_selector, buffer_list,
          planner_frame, collision_frame, traffic_light_frame,
          planner_messenger_state, collision_messenger_state,
          traffic_light_messenger_state, collision_messenger_current_state,
          traffic_light_messenger_current_state, messenger, consumer,
          road_position, pass, touched, wrote, buffer_tick, nsend>>

trackerVars == <<vehicle, buffer_list, planner_frame, collision_frame,
                 traffic_light_frame, road_position, pass, touched, wrote,
                 buffer_tick>>
senderVars == <<planner_frame_selector, collision_frame_selector,
                traffic_light_frame_selector, planner_messenger_state,
                collision_messenger_state, traffic_light_messenger_state,
                collision_messenger_current_state,
                traffic_light_messenger_current_state>>

(* ------------------------------ Messenger ------------------------------- *)
\* Messenger(): the generation counter starts at 0 with no payload.
NewMessenger == [state_counter |-> 0, data |-> NoFrame]
GetState(msg) == msg.state_counter
\* SendData waits while the generation equals the id carried by the packet.
SendDataReady(msg, packet) == msg.state_counter # packet.id
SendData(msg, packet) == [state_counter |-> msg.state_counter + 1, data |-> packet.data]
\* ReceiveData waits while the generation equals the caller's old state.
ReceiveDataReady(msg, old_state) == msg.state_counter # old_state
ReceiveData(msg) == [state_counter |-> msg.state_counter + 1, data |-> msg.data]

(* ----------------------------- construction ----------------------------- *)
\* Variant: the recorded generation starts equal to the channel's.
InitialMessengerState_NoOffset(msg) == GetState(msg)

\* "Initializing messenger states to initiate data writes preemptively."
InitialMessengerState(msg) == GetState(msg) - 1

NoPass == [tick |-> 0, status |-> "none", list |-> NoFrame,
           resynced |-> FALSE, purged |-> 0,
           reseeded |-> FALSE, change_over_point |-> NullWaypoint,
           before |-> <<>>, exposed |-> <<>>, pre_growth |-> <<>>,
           horizon_size |-> 0, target_waypoint |-> NullWaypoint,
           look_ahead_index |-> 0, queried |-> FALSE]

Init ==
  /\ map \in Maps
  /\ vehicle = [i \in VehicleIndices |-> [wp |-> StartWaypoint[i + 1], vel |-> 0]]
  /\ tick = 0
  /\ pc = "idle"
  /\ worker = [w \in Workers |-> [i |-> EndIndex(w) + 1, st |-> "run"]]
  /\ planner_frame_selector = TRUE
  /\ collision_frame_selector = TRUE
  /\ traffic_light_frame_selector = TRUE
  /\ buffer_list = [f \in FrameNames |-> [i \in VehicleIndices |-> <<>>]]
  /\ planner_frame = [f \in FrameNames |-> [i \in VehicleIndices |->
       [actor |-> NoActor, deviation |-> 0, approaching_true_junction |-> FALSE]]]
  /\ collision_frame = [f \in FrameNames |-> [i \in VehicleIndices |->
       [actor |-> NoActor, buffer |-> <<NoFrame, 0>>]]]
  /\ traffic_light_frame = [f \in FrameNames |-> [i \in VehicleIndices |->
       [actor |-> NoActor, closest_waypoint |-> NullWaypoint,
        junction_look_ahead_waypoint |-> NullWaypoint]]]
  /\ messenger = [c \in Channels |-> NewMessenger]
  /\ planner_messenger_state = InitialMessengerState(NewMessenger)
  /\ collision_messenger_state = InitialMessengerState(NewMessenger)
  /\ traffic_light_messenger_state = InitialMessengerState(NewMessenger)
  /\ collision_messenger_current_state = 0
  /\ traffic_light_messenger_current_state = 0
  /\ consumer = [c \in Channels |-> [state |-> GetState(NewMessenger), frame |-> NoFrame]]
  /\ road_position = [id \in ActorIds |-> <<>>]
  /\ pass = [i \in VehicleIndices |-> NoPass]
  /\ touched = [w \in Workers |-> {}]
  /\ wrote = [c \in Channels |-> [frame |-> NoFrame, tick |-> 0]]
  /\ buffer_tick = [f \in FrameNames |-> [i \in VehicleIndices |-> 0]]
  /\ nsend = [c \in Channels |-> 0]

(* ------------------------------- the tick ------------------------------- *)
\* The scheduler dispatches Action over the index partitions.
TickStart ==
  /\ pc = "idle"
  /\ tick < MaxTick
  /\ pc' = "action"
  /\ tick' = tick + 1
  /\ worker' = [w \in Workers |-> [i |-> StartIndex(w), st |-> "run"]]
  /\ touched' = [w \in Workers |-> {}]
  /\ UNCHANGED <<map, vehicle, buffer_list, planner_frame, collision_frame,
                 traffic_light_frame, messenger, consumer, road_position, pass,
                 wrote, buffer_tick, nsend>>
  /\ UNCHANGED senderVars

\* What vehicle->GetLocation() / GetVelocity() can return on the next pass:
\* the vehicle stands still where it was, or it moves and has reached the
\* steering target of its previous pass (its own place before any pass).
\* Parked vehicles never move.
DriveChoices(i, veh, last_target) ==
  IF i \in Parked
  THEN {[wp |-> veh.wp, vel |-> 0]}
  ELSE {[wp |-> veh.wp, vel |-> 0],
        [wp |-> IF last_target = NullWaypoint THEN veh.wp ELSE last_target,
         vel |-> CHOOSE v \in Velocities : v > 0]}

\* One iteration of the loop of Action(start_index, end_index) for worker w.
VehiclePass(w) ==
  /\ pc = "action"
  /\ worker[w].st = "run"
  /\ worker[w].i <= EndIndex(w)
  /\ LET i == worker[w].i
         current == Select(collision_frame_selector)
         copy == Select(~collision_frame_selector)
         actor_id == ActorAt(i)
         resynced == NeedsResync(buffer_list[current][i], buffer_list[copy][i])
     IN \E veh \in DriveChoices(i, vehicle[i], pass[i].target_waypoint) :
        \E purged \in {Purge(veh, Resync(buffer_list[current][i], buffer_list[copy][i]))} :
        \E seeded \in {Reseed(veh, purged)} :
        LET record == [tick |-> tick, status |-> "segfault", list |-> current,
                       resynced |-> resynced,
                       purged |-> (IF resynced THEN Len(buffer_list[copy][i])
                                   ELSE Len(buffer_list[current][i])) - Len(purged),
                       reseeded |-> (purged = <<>>),
                       change_over_point |-> NullWaypoint,
                       before |-> buffer_list[current][i],
                       exposed |-> buffer_list[copy][i],
                       pre_growth |-> seeded,
                       horizon_size |-> HorizonSize(veh),
                       target_waypoint |-> NullWaypoint,
                       look_ahead_index |-> 0,
                       queried |-> FALSE]
        IN
        IF seeded = <<>>
        THEN \* waypoint_buffer.front() on an empty deque: the process dies.
             /\ vehicle' = [vehicle EXCEPT ![i] = veh]
             /\ buffer_list' = [buffer_list EXCEPT ![current][i] = seeded]
             /\ buffer_tick' = [buffer_tick EXCEPT ![current][i] =
                  IF seeded # buffer_list[current][i] THEN tick ELSE @]
             /\ touched' = [touched EXCEPT ![w] = @ \cup {i}]
             /\ pass' = [pass EXCEPT ![i] = record]
             /\ worker' = [worker EXCEPT ![w].st = "segfault"]
             /\ pc' = "fatal"
             /\ UNCHANGED <<road_position, planner_frame, collision_frame,
                            traffic_light_frame, wrote>>
        ELSE
        LET front_waypoint == Head(seeded)
            current_road_ids == RoadIds[front_waypoint]
            queried == ~CheckJunction(front_waypoint)
        IN \E registry \in
                {UpdateVehicleRoadPosition(road_position, actor_id, current_road_ids)} :
           \E change_over_point \in
                IF queried
                THEN AssignLaneChange(registry, actor_id, front_waypoint, current_road_ids)
                ELSE {NullWaypoint} :
           \E pre_growth \in {Redirect(seeded, change_over_point)} :
           \E grown \in Populate(map, pre_growth, HorizonSize(veh)) :
           \E target_waypoint \in {TargetWaypoint(veh, grown.buffer)} :
           \E la \in {LookAhead(veh, grown.buffer)} :
              LET waypoint_buffer == grown.buffer
              IN /\ vehicle' = [vehicle EXCEPT ![i] = veh]
                 /\ road_position' = registry
                 /\ buffer_list' = [buffer_list EXCEPT ![current][i] = waypoint_buffer]
                 /\ buffer_tick' = [buffer_tick EXCEPT ![current][i] =
                      IF waypoint_buffer # buffer_list[current][i] THEN tick ELSE @]
                 /\ touched' = [touched EXCEPT ![w] =
                      @ \cup {i} \cup
                      (IF queried
                       THEN CoLaneVehicles(registry, actor_id, current_road_ids) ELSE {})]
                 /\ pass' = [pass EXCEPT ![i] =
                      [record EXCEPT !.status = grown.status,
                                     !.change_over_point = change_over_point,
                                     !.pre_growth = pre_growth,
                                     !.target_waypoint = target_waypoint,
                                     !.look_ahead_index = la.index,
                                     !.queried = queried]]
                 /\ IF grown.status = "done"
                    THEN /\ planner_frame' =
                              [planner_frame EXCEPT ![Select(planner_frame_selector)][i] =
                                 [actor |-> actor_id,
                                  deviation |-> Deviation(veh, target_waypoint),
                                  approaching_true_junction |->
                                    ApproachingJunction(map, SpeedLimit(i), waypoint_buffer, la)]]
                         /\ collision_frame' =
                              [collision_frame EXCEPT ![Select(collision_frame_selector)][i] =
                                 [actor |-> actor_id, buffer |-> <<current, i>>]]
                         /\ traffic_light_frame' =
                              [traffic_light_frame EXCEPT
                                 ![Select(traffic_light_frame_selector)][i] =
                                 [actor |-> actor_id,
                                  closest_waypoint |-> Head(waypoint_buffer),
                                  junction_look_ahead_waypoint |->
                                    waypoint_buffer[la.index + 1]]]
                         /\ wrote' =
                              [planner |-> [frame |-> Select(planner_frame_selector),
                                            tick |-> tick],
                               collision |-> [frame |-> Select(collision_frame_selector),
                                              tick |-> tick],
                               traffic_light |-> [frame |-> Select(traffic_light_frame_selector),
                                                  tick |-> tick]]
                         /\ worker' = [worker EXCEPT ![w].i = i + 1]
                         /\ pc' = pc
                    ELSE /\ UNCHANGED <<planner_frame, collision_frame,
                                        traffic_light_frame, wrote>>
                         /\ worker' = [worker EXCEPT ![w].st = grown.status]
                         /\ pc' = IF grown.status = "out_of_range" THEN "fatal" ELSE pc
  /\ UNCHANGED <<map, tick, messenger, consumer, nsend>>
  /\ UNCHANGED senderVars

\* Tick-level barrier: every partition has completed, DataSender may start.
AllPartitionsDone == \A w \in Workers : worker[w].st = "run" /\ worker[w].i > EndIndex(w)

Barrier ==
  /\ pc = "action"
  /\ AllPartitionsDone
  /\ pc' = "planner_send"
  /\ nsend' = [c \in Channels |-> 0]
  /\ UNCHANGED <<map, tick, worker, messenger, consumer>>
  /\ UNCHANGED trackerVars
  /\ UNCHANGED senderVars

(* ------------------------------ DataSender ------------------------------ *)
\* Variant: the planner selector is not flipped.
PlannerSend_NoFlip ==
  /\ pc = "planner_send"
  /\ LET planner_data_packet == [id |-> planner_messenger_state,
                                 data |-> Select(planner_frame_selector)]
     IN /\ SendDataReady(messenger.planner, planner_data_packet)
        /\ messenger' = [messenger EXCEPT !.planner = SendData(@, planner_data_packet)]
  /\ planner_frame_selector' = planner_frame_selector
  /\ planner_messenger_state' = GetState(messenger'.planner)
  /\ nsend' = [nsend EXCEPT !.planner = @ + 1]
  /\ pc' = "collision_get"
  /\ UNCHANGED <<map, tick, worker, consumer, collision_frame_selector,
                 traffic_light_frame_selector, collision_messenger_state,
                 traffic_light_messenger_state, collision_messenger_current_state,
                 traffic_light_messenger_current_state>>
  /\ UNCHANGED trackerVars

\* Variant: the generation recorded is the one read before the send.
PlannerSend_StaleState ==
  /\ pc = "planner_send"
  /\ LET planner_data_packet == [id |-> planner_messenger_state,
                                 data |-> Select(planner_frame_selector)]
     IN /\ SendDataReady(messenger.planner, planner_data_packet)
        /\ messenger' = [messenger EXCEPT !.planner = SendData(@, planner_data_packet)]
  /\ planner_frame_selector' = ~planner_frame_selector
  /\ planner_messenger_state' = GetState(messenger.planner)
  /\ nsend' = [nsend EXCEPT !.planner = @ + 1]
  /\ pc' = "collision_get"
  /\ UNCHANGED <<map, tick, worker, consumer, collision_frame_selector,
                 traffic_light_frame_selector, collision_messenger_state,
                 traffic_light_messenger_state, collision_messenger_current_state,
                 traffic_light_messenger_current_state>>
  /\ UNCHANGED trackerVars

\* Must-consume channel: build the packet, flip the selector, SendData.
PlannerSend ==
  /\ pc = "planner_send"
  /\ LET planner_data_packet == [id |-> planner_messenger_state,
                                 data |-> Select(planner_frame_selector)]
     IN /\ SendDataReady(messenger.planner, planner_data_packet)
        /\ messenger' = [messenger EXCEPT !.planner = SendData(@, planner_data_packet)]
  /\ planner_frame_selector' = ~planner_frame_selector
  /\ planner_messenger_state' = GetState(messenger'.planner)
  /\ nsend' = [nsend EXCEPT !.planner = @ + 1]
  /\ pc' = "collision_get"
  /\ UNCHANGED <<map, tick, worker, consumer, collision_frame_selector,
                 traffic_light_frame_selector, collision_messenger_state,
                 traffic_light_messenger_state, collision_messenger_current_state,
                 traffic_light_messenger_current_state>>
  /\ UNCHANGED trackerVars

\* Variant: the generation test dropped, a send on every tick.
ShouldSend_Always(current_state, recorded_state) == TRUE

\* Variant: the generation test inverted.
ShouldSend_Inverted(current_state, recorded_state) == current_state = recorded_state

\* if (collision_messenger_current_state != collision_messenger_state)
ShouldSend(current_state, recorded_state) == current_state # recorded_state

\* Variant: a skipped tick flips the collision selector all the same.
CollisionGet_FlipOnSkip ==
  /\ pc = "collision_get"
  /\ collision_messenger_current_state' = GetState(messenger.collision)
  /\ pc' = IF ShouldSend(collision_messenger_current_state', collision_messenger_state)
           THEN "collision_send" ELSE "traffic_light_get"
  /\ UNCHANGED <<map, tick, worker, messenger, consumer, nsend,
                 planner_frame_selector,
                 traffic_light_frame_selector, planner_messenger_state,
                 collision_messenger_state, traffic_light_messenger_state,
                 traffic_light_messenger_current_state>>
  /\ collision_frame_selector' =
       IF pc' = "collision_send" THEN collision_frame_selector
       ELSE ~collision_frame_selector
  /\ UNCHANGED trackerVars

CollisionGet ==
  /\ pc = "collision_get"
  /\ collision_messenger_current_state' = GetState(messenger.collision)
  /\ pc' = IF ShouldSend(collision_messenger_current_state', collision_messenger_state)
           THEN "collision_send" ELSE "traffic_light_get"
  /\ UNCHANGED <<map, tick, worker, messenger, consumer, nsend,
                 planner_frame_selector, collision_frame_selector,
                 traffic_light_frame_selector, planner_messenger_state,
                 collision_messenger_state, traffic_light_messenger_state,
                 traffic_light_messenger_current_state>>
  /\ UNCHANGED trackerVars

CollisionSend ==
  /\ pc = "collision_send"
  /\ LET collision_data_packet == [id |-> collision_messenger_state,
                                   data |-> Select(collision_frame_selector)]
     IN /\ SendDataReady(messenger.collision, collision_data_packet)
        /\ messenger' = [messenger EXCEPT !.collision = SendData(@, collision_data_packet)]
  /\ collision_messenger_state' = GetState(messenger'.collision)
  /\ collision_frame_selector' = ~collision_frame_selector
  /\ nsend' = [nsend EXCEPT !.collision = @ + 1]
  /\ pc' = "traffic_light_get"
  /\ UNCHANGED <<map, tick, worker, consumer, planner_frame_selector,
                 traffic_light_frame_selector, planner_messenger_state,
                 traffic_light_messenger_state, collision_messenger_current_state,
                 traffic_light_messenger_current_state>>
  /\ UNCHANGED trackerVars

TrafficLightGet ==
  /\ pc = "traffic_light_get"
  /\ traffic_light_messenger_current_state' = GetState(messenger.traffic_light)
  /\ pc' = IF ShouldSend(traffic_light_messenger_current_state',
                         traffic_light_messenger_state)
           THEN "traffic_light_send" ELSE "idle"
  /\ UNCHANGED <<map, tick, worker, messenger, consumer, nsend,
                 planner_frame_selector, collision_frame_selector,
                 traffic_light_frame_selector, planner_messenger_state,
                 collision_messenger_state, traffic_light_messenger_state,
                 collision_messenger_current_state>>
  /\ UNCHANGED trackerVars

TrafficLightSend ==
  /\ pc = "traffic_light_send"
  /\ LET traffic_light_data_packet == [id |-> traffic_light_messenger_state,
                                       data |-> Select(traffic_light_frame_selector)]
     IN /\ SendDataReady(messenger.traffic_light, traffic_light_data_packet)
        /\ messenger' = [messenger EXCEPT
                           !.traffic_light = SendData(@, traffic_light_data_packet)]
  /\ traffic_light_messenger_state' = GetState(messenger'.traffic_light)
  /\ traffic_light_frame_selector' = ~traffic_light_frame_selector
  /\ nsend' = [nsend EXCEPT !.traffic_light = @ + 1]
  /\ pc' = "idle"
  /\ UNCHANGED <<map, tick, worker, consumer, planner_frame_selector,
                 collision_frame_selector, planner_messenger_state,
                 collision_messenger_state, collision_messenger_current_state,
                 traffic_light_messenger_current_state>>
  /\ UNCHANGED trackerVars

(* ------------------------------ consumers ------------------------------- *)
\* A downstream stage retrieves the delivered frame and reads it until its
\* next retrieve.
Retrieve(c) ==
  /\ pc # "fatal"
  /\ ReceiveDataReady(messenger[c], consumer[c].state)
  /\ messenger' = [messenger EXCEPT ![c] = ReceiveData(@)]
  /\ consumer' = [consumer EXCEPT ![c] =
                    [state |-> GetState(messenger'[c]), frame |-> messenger[c].data]]
  /\ UNCHANGED <<map, tick, pc, worker, nsend>>
  /\ UNCHANGED trackerVars
  /\ UNCHANGED senderVars

Next ==
  \/ TickStart
  \/ \E w \in Workers : VehiclePass(w)
  \/ Barrier
  \/ PlannerSend
  \/ CollisionGet
  \/ CollisionSend
  \/ TrafficLightGet
  \/ TrafficLightSend
  \/ \E c \in Channels : Retrieve(c)

Spec == Init /\ [][Next]_vars

(* =========================== handoff protocol ========================== *)

\* C1 (as claimed): for every interleaving of producer ticks and collision
\* consumer steps, no step mutates a horizon buffer or rewrites a collision
\* frame entry of the frame the collision consumer currently holds.
C1_HeldFrameNeverMutated ==
  [][consumer.collision.frame \in FrameNames =>
       /\ buffer_list'[consumer.collision.frame] = buffer_list[consumer.collision.frame]
       /\ collision_frame'[consumer.collision.frame] =
            collision_frame[consumer.collision.frame]]_vars

\* C2: a best-effort send never blocks: whenever DataSender stands at the
\* SendData call of the collision or traffic-light channel the channel's
\* generation differs from the packet id, and the planner send can only wait
\* while the planner consumer has a delivery it has not retrieved yet.
C2_BestEffortSendNeverBlocks ==
  /\ pc = "collision_send" =>
       SendDataReady(messenger.collision, [id |-> collision_messenger_state])
  /\ pc = "traffic_light_send" =>
       SendDataReady(messenger.traffic_light, [id |-> traffic_light_messenger_state])
  /\ pc = "planner_send" =>
       \/ SendDataReady(messenger.planner, [id |-> planner_messenger_state])
       \/ ReceiveDataReady(messenger.planner, consumer.planner.state)

\* C2 witness: DataSender stands at a best-effort send of a later tick while
\* the other best-effort consumer has never retrieved anything.
C2_Witness ==
  /\ tick >= 2
  /\ pc = "collision_send"
  /\ consumer.traffic_light.frame = NoFrame

\* C3: in every DataSender call, per best-effort channel, a send occurs iff
\* the generation read differs from the recorded one; the payload sent is the
\* frame written by this tick's Action, the selector is flipped once and the
\* recorded generation becomes the value SendData returns.
C3_BestEffortSendIff ==
  [][/\ (pc = "collision_get" /\ pc' # pc) =>
          /\ (pc' = "collision_send") <=>
               (GetState(messenger.collision) # collision_messenger_state)
          /\ pc' \in {"collision_send", "traffic_light_get"}
          /\ nsend'.collision = 0
          /\ collision_frame_selector' = collision_frame_selector
     /\ (pc = "collision_send" /\ pc' # pc) =>
          /\ messenger'.collision.data = wrote.collision.frame
          /\ wrote.collision.tick = tick
          /\ collision_frame_selector' = ~collision_frame_selector
          /\ collision_messenger_state' = GetState(messenger.collision) + 1
          /\ nsend'.collision = 1
     /\ (pc = "traffic_light_get" /\ pc' # pc) =>
          /\ (pc' = "traffic_light_send") <=>
               (GetState(messenger.traffic_light) # traffic_light_messenger_state)
          /\ pc' \in {"traffic_light_send", "idle"}
          /\ nsend'.traffic_light = 0
          /\ traffic_light_frame_selector' = traffic_light_frame_selector
     /\ (pc = "traffic_light_send" /\ pc' # pc) =>
          /\ messenger'.traffic_light.data = wrote.traffic_light.frame
          /\ wrote.traffic_light.tick = tick
          /\ traffic_light_frame_selector' = ~traffic_light_frame_selector
          /\ traffic_light_messenger_state' = GetState(messenger.traffic_light) + 1
          /\ nsend'.traffic_light = 1
     /\ (collision_frame_selector' # collision_frame_selector) => pc = "collision_send"
     /\ (traffic_light_frame_selector' # traffic_light_frame_selector) =>
          pc = "traffic_light_send"]_vars

\* C3 witness: one DataSender call has sent on one best-effort channel and
\* skipped the other.
C3_Witness ==
  /\ pc = "idle"
  /\ tick >= 2
  /\ nsend.collision = 1
  /\ nsend.traffic_light = 0

\* C4: on a tick where a best-effort channel skips sending, DataSender leaves
\* the recorded generation, the selector and the channel untouched, and the
\* following Action writes into the frame object written on the skipped tick,
\* which is not the frame most recently delivered on that channel.
C4_SkipLeavesFrameInPlace ==
  [][/\ (pc = "collision_get" /\ pc' = "traffic_light_get") =>
          /\ collision_messenger_state' = collision_messenger_state
          /\ collision_frame_selector' = collision_frame_selector
          /\ messenger'.collision = messenger.collision
     /\ (pc = "traffic_light_get" /\ pc' = "idle") =>
          /\ traffic_light_messenger_state' = traffic_light_messenger_state
          /\ traffic_light_frame_selector' = traffic_light_frame_selector
          /\ messenger'.traffic_light = messenger.traffic_light
     /\ (pc = "action" /\ tick >= 2 /\ wrote' # wrote /\ nsend.collision = 0) =>
          /\ wrote'.collision.frame = wrote.collision.frame
          /\ wrote'.collision.frame # messenger.collision.data
     /\ (pc = "action" /\ tick >= 2 /\ wrote' # wrote /\ nsend.traffic_light = 0) =>
          /\ wrote'.traffic_light.frame = wrote.traffic_light.frame
          /\ wrote'.traffic_light.frame # messenger.traffic_light.data]_vars

\* C4 witness: the Action following a DataSender that skipped the collision
\* channel has written its frame entries.
C4_Witness ==
  /\ pc = "action"
  /\ tick >= 2
  /\ nsend.collision = 0
  /\ wrote.collision.tick = tick

\* C5: on every tick DataSender performs exactly one send on the planner
\* channel, carrying the planner frame written by this tick's Action, and
\* flips the planner selector exactly once, so two consecutive planner sends
\* carry different frame objects.
C5_PlannerSendEveryTick ==
  [][/\ (pc = "planner_send" /\ pc' # pc) =>
          /\ pc' = "collision_get"
          /\ messenger'.planner.data = wrote.planner.frame
          /\ wrote.planner.tick = tick
          /\ messenger'.planner.data # messenger.planner.data
          /\ planner_frame_selector' = ~planner_frame_selector
          /\ nsend'.planner = 1
     /\ (\/ planner_frame_selector' # planner_frame_selector
         \/ messenger'.planner.data # messenger.planner.data
         \/ nsend'.planner > nsend.planner) => pc = "planner_send"
     /\ (pc # "idle" /\ pc' = "idle") => nsend'.planner = 1]_vars

\* C5 witness: a planner send of a later tick has completed although neither
\* best-effort consumer has ever retrieved a frame.
C5_Witness ==
  /\ tick >= 2
  /\ pc = "collision_get"
  /\ consumer.collision.frame = NoFrame
  /\ consumer.traffic_light.frame = NoFrame

\* C6 (as claimed): the generation recorded for the planner channel increases
\* by exactly 1 from each tick to the next.
C6_RecordedGenerationPlusOne ==
  [][(tick >= 2 /\ planner_messenger_state' # planner_messenger_state) =>
       planner_messenger_state' = planner_messenger_state + 1]_vars

\* C6 (amended): the generation recorded for the planner channel increases by
\* exactly 2 from each tick to the next: one for the consumer's retrieve and
\* one for the send.
C6_RecordedGenerationPlusTwo ==
  [][planner_messenger_state' # planner_messenger_state =>
       planner_messenger_state' = planner_messenger_state + 2]_vars

\* C6 witness: the second planner send has been recorded.
C6_Witness ==
  /\ tick = 2
  /\ pc = "collision_get"
  /\ planner_messenger_state = 3

\* C7: the first DataSender call after construction sends on all three
\* channels: none of the sends waits and none is skipped.
C7_FirstTickSendsAll ==
  tick = 1 =>
    /\ pc = "planner_send" =>
         SendDataReady(messenger.planner, [id |-> planner_messenger_state])
    /\ pc = "collision_get" => nsend.planner = 1
    /\ pc = "collision_send" =>
         SendDataReady(messenger.collision, [id |-> collision_messenger_state])
    /\ pc = "traffic_light_get" => nsend.planner = 1 /\ nsend.collision = 1
    /\ pc = "traffic_light_send" =>
         SendDataReady(messenger.traffic_light, [id |-> traffic_light_messenger_state])
    /\ pc = "idle" => \A c \in Channels : nsend[c] = 1

\* C7 witness: the first DataSender call has returned, the planner consumer
\* having retrieved its frame in the meantime.
C7_Witness ==
  /\ tick = 1
  /\ pc = "idle"
  /\ consumer.planner.frame = "a"

(* ============================ horizon tracker ========================== *)

\* C8 (as claimed): within one tick no worker reads or writes the horizon
\* buffer of a vehicle index outside its own partition, the lane-change query
\* included.
C8_NoForeignBufferAccess ==
  \A w \in Workers : touched[w] \subseteq StartIndex(w)..EndIndex(w)

\* C9: on a map where every waypoint has a successor, the active horizon
\* buffer of a vehicle is non-empty once Action has processed the vehicle,
\* whatever the buffer held before.
C9_BufferNonEmptyAfterPass ==
  \A i \in VehicleIndices :
    (ValidMap(map) /\ pass[i].status # "none") =>
      buffer_list[pass[i].list][i] # <<>>

\* C9 witness: a completed pass on a valid map whose trim emptied a buffer
\* that held waypoints, so that the buffer had to be reseeded.
C9_Witness ==
  \E i \in VehicleIndices :
    /\ ValidMap(map)
    /\ pass[i].status = "done"
    /\ pass[i].purged > 0
    /\ pass[i].reseeded

\* C10: whenever the growth step of a pass completes without a topology
\* error, the squared distance between the buffer's back and front is at
\* least horizon_size squared, horizon_size = max(3 x |velocity|, 25).
C10_GrownToHorizon ==
  \A i \in VehicleIndices :
    pass[i].status = "done" =>
      LET buffer == buffer_list[pass[i].list][i]
          horizon_size == IF 3 * vehicle[i].vel >= 25 THEN 3 * vehicle[i].vel ELSE 25
      IN DistanceSquared(buffer[Len(buffer)], Head(buffer)) >= horizon_size * horizon_size

\* C10 witness: a completed pass of a moving vehicle whose horizon exceeds
\* the 25 unit floor and whose buffer was grown by the pass.
C10_Witness ==
  \E i \in VehicleIndices :
    /\ pass[i].status = "done"
    /\ 3 * vehicle[i].vel > 25
    /\ Len(buffer_list[pass[i].list][i]) > Len(pass[i].pre_growth)

\* C11: the trim removes exactly the maximal prefix of the (resynchronised)
\* buffer whose signed deviation from the vehicle's heading is <= 0: every
\* removed entry has deviation <= 0, the first retained entry, if any, has
\* deviation > 0, and what stands behind it is kept in order, entries with
\* deviation <= 0 included.
C11_TrimRemovesMaximalPrefix ==
  \A i \in VehicleIndices :
    pass[i].status # "none" =>
      LET synced == IF pass[i].resynced THEN pass[i].exposed ELSE pass[i].before
          k == pass[i].purged
          dot_product(w) == DeviationDotProduct(vehicle[i], Loc[w])
      IN /\ k \in 0..Len(synced)
         /\ \A j \in 1..k : dot_product(synced[j]) <= 0
         /\ k < Len(synced) => dot_product(synced[k + 1]) > 0
         /\ pass[i].reseeded <=> (k = Len(synced))
         /\ (k < Len(synced) /\ pass[i].change_over_point = NullWaypoint) =>
              pass[i].pre_growth = SubSeq(synced, k + 1, Len(synced))

\* C11 witness: one pass popped passed waypoints off the front and kept the
\* rest, and one pass kept, behind the first retained entry, an entry whose
\* deviation is <= 0.
C11_Witness ==
  /\ \E i \in VehicleIndices :
       /\ pass[i].status = "done"
       /\ pass[i].purged > 0
       /\ ~pass[i].reseeded
  /\ \E i \in VehicleIndices :
       LET synced == IF pass[i].resynced THEN pass[i].exposed ELSE pass[i].before
           k == pass[i].purged
       IN /\ pass[i].status = "done"
          /\ pass[i].change_over_point = NullWaypoint
          /\ \E j \in (k + 2)..Len(synced) :
               /\ DeviationDotProduct(vehicle[i], Loc[synced[j]]) <= 0
               /\ pass[i].pre_growth[j - k] = synced[j]

\* C12: the resynchronisation step replaces the active copy with an
\* element-for-element copy of the exposed copy exactly when both copies are
\* non-empty and their fronts differ in road id, section id or lane id;
\* otherwise the active copy goes into the trim as it was. The exposed copy
\* is left as it was in both cases.
C12_ResyncExactlyOnIdMismatch ==
  \A i \in VehicleIndices :
    pass[i].status # "none" =>
      LET active == pass[i].before
          exposed == pass[i].exposed
          mismatch == /\ active # <<>>
                      /\ exposed # <<>>
                      /\ RoadIds[Head(active)] # RoadIds[Head(exposed)]
          synced == IF mismatch THEN exposed ELSE active
          other == IF pass[i].list = "a" THEN "b" ELSE "a"
      IN /\ pass[i].resynced <=> mismatch
         /\ pass[i].purged \in 0..Len(synced)
         /\ (~pass[i].reseeded /\ pass[i].change_over_point = NullWaypoint) =>
              pass[i].pre_growth = SubSeq(synced, pass[i].purged + 1, Len(synced))
         /\ buffer_list[other][i] = exposed

\* C12 witness: a pass that overwrote an active copy with an exposed copy of
\* other contents, the two fronts being on the same lane id and road id but
\* on different sections, and the copied entries going on into the growth.
C12_Witness ==
  \E i \in VehicleIndices :
    /\ pass[i].status = "done"
    /\ pass[i].resynced
    /\ pass[i].before # pass[i].exposed
    /\ RoadIds[Head(pass[i].before)][3] = RoadIds[Head(pass[i].exposed)][3]
    /\ RoadIds[Head(pass[i].before)][1] = RoadIds[Head(pass[i].exposed)][1]
    /\ ~pass[i].reseeded
    /\ pass[i].change_over_point = NullWaypoint

\* C13 (as claimed): over any sequence of ticks, skipped collision sends
\* included, whenever the resynchronisation step of a pass overwrites the
\* active copy of a vehicle's buffer, the exposed copy it copies from was
\* last changed in a later tick than the active copy it discards.
C13_ResyncNeverRestoresOlderState ==
  [][\A i \in VehicleIndices :
       (pass'[i] # pass[i] /\ pass'[i].resynced) =>
         LET current == pass'[i].list
             copy == IF current = "a" THEN "b" ELSE "a"
         IN buffer_tick[copy][i] > buffer_tick[current][i]]_vars

\* C14 (as claimed): the steering target of a pass is the last buffer entry,
\* walking forward from the front, whose squared distance to the front is
\* still below target_point_distance squared, with target_point_distance =
\* max(ceil(0.5 x |velocity|), 2); it never lies at or beyond the threshold
\* unless it is the front itself.
C14_TargetLastBelowThreshold ==
  \A i \in VehicleIndices :
    pass[i].status = "done" =>
      LET buffer == buffer_list[pass[i].list][i]
          half == (vehicle[i].vel + 1) \div 2
          target_point_distance == IF half >= 2 THEN half ELSE 2
          below(j) == DistanceSquared(Head(buffer), buffer[j])
                        < target_point_distance * target_point_distance
      IN /\ \E n \in 1..Len(buffer) :
              /\ pass[i].target_waypoint = buffer[n]
              /\ \A j \in 1..n : below(j)
              /\ n < Len(buffer) => ~below(n + 1)
         /\ \/ pass[i].target_waypoint = Head(buffer)
            \/ DistanceSquared(Head(buffer), pass[i].target_waypoint)
                 < target_point_distance * target_point_distance

\* C14 (amended): the steering target of a pass is the first buffer entry,
\* walking forward from the front, whose squared distance to the front is at
\* or above target_point_distance squared, or the back of the buffer when no
\* entry is; every entry before the target is below the threshold.
C14_TargetFirstAtThreshold ==
  \A i \in VehicleIndices :
    pass[i].status = "done" =>
      LET buffer == buffer_list[pass[i].list][i]
          half == (vehicle[i].vel + 1) \div 2
          target_point_distance == IF half >= 2 THEN half ELSE 2
          below(j) == DistanceSquared(Head(buffer), buffer[j])
                        < target_point_distance * target_point_distance
      IN \E n \in 1..Len(buffer) :
           /\ pass[i].target_waypoint = buffer[n]
           /\ \A j \in 1..(n - 1) : below(j)
           /\ n < Len(buffer) => ~below(n)

\* C14 witness: a completed pass of a moving vehicle (threshold 5) whose
\* target is not the front and lies at or beyond the threshold.
C14_Witness ==
  \E i \in VehicleIndices :
    /\ pass[i].status = "done"
    /\ vehicle[i].vel = 9
    /\ pass[i].target_waypoint # Head(buffer_list[pass[i].list][i])
    /\ DistanceSquared(Head(buffer_list[pass[i].list][i]), pass[i].target_waypoint) >= 25

\* C15: the approaching_junction flag emitted for a vehicle is true exactly
\* when the look-ahead point is inside a junction, the buffer front is not,
\* and either the speed limit is at or below 50 km/h (13.89), or it is above
\* and some buffer entry at an index strictly smaller than the look-ahead
\* index has more than one successor; in every other case it is false.
C15_ApproachingJunctionExact ==
  \A i \in VehicleIndices :
    (pass[i].status = "done" /\ pass[i].tick = wrote.planner.tick) =>
      LET buffer == buffer_list[pass[i].list][i]
          look_ahead_index == pass[i].look_ahead_index
          look_ahead_point == buffer[look_ahead_index + 1]
          highway == SpeedLimit(i) * 36 > 500
          branch_before == \E j \in 1..look_ahead_index :
                             Len(Successors(map)[buffer[j]]) > 1
      IN planner_frame[wrote.planner.frame][i].approaching_true_junction
           <=> /\ look_ahead_point \in JunctionWaypoints
               /\ Head(buffer) \notin JunctionWaypoints
               /\ (~highway \/ branch_before)

\* C15 witness: a vehicle under a highway speed limit whose look-ahead point
\* is a junction waypoint with two successors, with no branch before it and
\* the front outside the junction, and whose emitted flag is false.
C15_Witness ==
  \E i \in VehicleIndices :
    LET buffer == buffer_list[pass[i].list][i]
        look_ahead_point == buffer[pass[i].look_ahead_index + 1]
    IN /\ pass[i].status = "done" /\ pass[i].tick = wrote.planner.tick
       /\ SpeedLimit(i) * 36 > 500
       /\ look_ahead_point \in JunctionWaypoints
       /\ Head(buffer) \notin JunctionWaypoints
       /\ Len(Successors(map)[look_ahead_point]) > 1
       /\ \A j \in 1..pass[i].look_ahead_index : Len(Successors(map)[buffer[j]]) = 1
       /\ ~planner_frame[wrote.planner.frame][i].approaching_true_junction

\* C16 (as claimed): the growth step appends a successor only while the
\* squared distance between the buffer's back and front is strictly below
\* horizon_size squared; once it is equal or greater nothing more is
\* appended, so at most one appended entry lies at or beyond the horizon.
C16_GrowthWhileStrictlyBelow ==
  \A i \in VehicleIndices :
    pass[i].status = "done" =>
      LET buffer == buffer_list[pass[i].list][i]
          horizon_size == IF 3 * vehicle[i].vel >= 25 THEN 3 * vehicle[i].vel ELSE 25
          at_or_beyond(j) == DistanceSquared(buffer[j], Head(buffer))
                               >= horizon_size * horizon_size
          appended == (Len(pass[i].pre_growth) + 1)..Len(buffer)
      IN /\ \A j \in appended : ~at_or_beyond(j - 1)
         /\ Cardinality({j \in appended : at_or_beyond(j)}) <= 1

\* C16 (amended): the growth step appends a successor while the squared
\* distance between the buffer's back and front is at most horizon_size
\* squared and stops once it is strictly greater, so at most one appended
\* entry lies strictly beyond the horizon (and one more may lie exactly on it).
C16_GrowthWhileAtMost ==
  \A i \in VehicleIndices :
    pass[i].status = "done" =>
      LET buffer == buffer_list[pass[i].list][i]
          horizon_size == IF 3 * vehicle[i].vel >= 25 THEN 3 * vehicle[i].vel ELSE 25
          beyond(j) == DistanceSquared(buffer[j], Head(buffer))
                         > horizon_size * horizon_size
          appended == (Len(pass[i].pre_growth) + 1)..Len(buffer)
      IN /\ SubSeq(buffer, 1, Len(pass[i].pre_growth)) = pass[i].pre_growth
         /\ \A j \in appended : ~beyond(j - 1)
         /\ beyond(Len(buffer))
         /\ Cardinality({j \in appended : beyond(j)}) <= 1

\* C16 witness: a completed pass that appended an entry lying exactly at the
\* horizon distance from the front and then one more behind it.
C16_Witness ==
  \E i \in VehicleIndices :
    LET buffer == buffer_list[pass[i].list][i]
        horizon_size == IF 3 * vehicle[i].vel >= 25 THEN 3 * vehicle[i].vel ELSE 25
    IN /\ pass[i].status = "done"
       /\ \E j \in (Len(pass[i].pre_growth) + 1)..(Len(buffer) - 1) :
            DistanceSquared(buffer[j], Head(buffer)) = horizon_size * horizon_size

\* C17: the lane-change query is issued only when the buffer front after
\* trim and reseed is not inside a junction, and with the vehicle's road
\* identity registered; when it returns a waypoint w the buffer is reduced to
\* the single element w before growth, so that after the pass the front is w
\* and every other entry was appended by the growth; when the front is in a
\* junction or the query returns nothing, the trimmed buffer is kept as a
\* prefix of the grown buffer.
C17_LaneChangeRedirect ==
  \A i \in VehicleIndices :
    pass[i].status \in {"done", "out_of_range", "spinning"} =>
      LET buffer == buffer_list[pass[i].list][i]
          synced == IF pass[i].resynced THEN pass[i].exposed ELSE pass[i].before
          trimmed == IF pass[i].reseeded
                     THEN <<GetWaypoint(Loc[vehicle[i].wp])>>
                     ELSE SubSeq(synced, pass[i].purged + 1, Len(synced))
          w == pass[i].change_over_point
      IN /\ pass[i].queried => Head(trimmed) \notin JunctionWaypoints
         /\ pass[i].queried => road_position[ActorAt(i)] = RoadIds[Head(trimmed)]
         /\ w # NullWaypoint => pass[i].queried
         /\ IF w # NullWaypoint
            THEN /\ pass[i].pre_growth = <<w>>
                 /\ Head(buffer) = w
                 /\ \A j \in 2..Len(buffer) :
                      \E k \in 1..Len(Successors(map)[buffer[j - 1]]) :
                        Successors(map)[buffer[j - 1]][k] = buffer[j]
            ELSE /\ Len(trimmed) <= Len(buffer)
                 /\ SubSeq(buffer, 1, Len(trimmed)) = trimmed

\* C17 witness: a completed pass whose query returned a change-over point
\* while the trimmed buffer held several waypoints, and whose growth then
\* appended to the single redirected entry.
C17_Witness ==
  \E i \in VehicleIndices :
    /\ pass[i].status = "done"
    /\ pass[i].queried
    /\ pass[i].change_over_point # NullWaypoint
    /\ ~pass[i].reseeded
    /\ Len(IF pass[i].resynced THEN pass[i].exposed ELSE pass[i].before)
         - pass[i].purged > 1
    /\ Len(buffer_list[pass[i].list][i]) > 1

\* C18: when the growth of a vehicle's pass stands on a back waypoint without
\* successors while the horizon is not yet covered, the pass ends in a fatal
\* error there: nothing is appended behind that waypoint, no planner,
\* collision or traffic-light entry is written for the vehicle, and the
\* failure is fatal to the tick: no step of the stage follows it.
C18_DeadEndIsFatal ==
  [][/\ pc # "fatal"
     /\ \A i \in VehicleIndices :
          LET buffer == buffer_list'[pass'[i].list][i]
              horizon_size == IF 3 * vehicle'[i].vel >= 25
                              THEN 3 * vehicle'[i].vel ELSE 25
          IN (/\ pass'[i] # pass[i]
              /\ buffer # <<>>
              /\ Successors(map)[buffer[Len(buffer)]] = <<>>
              /\ DistanceSquared(buffer[Len(buffer)], Head(buffer))
                   <= horizon_size * horizon_size)
             => /\ pass'[i].status = "out_of_range"
                /\ pc' = "fatal"
                /\ \A f \in FrameNames :
                     /\ planner_frame'[f][i] = planner_frame[f][i]
                     /\ collision_frame'[f][i] = collision_frame[f][i]
                     /\ traffic_light_frame'[f][i] = traffic_light_frame[f][i]]_vars

\* C18 witness: the growth of a pass appended waypoints, reached a waypoint
\* without successors and stopped the stage, the other vehicle still waiting
\* for its pass of the tick.
C18_Witness ==
  \E i \in VehicleIndices :
    /\ pass[i].status = "out_of_range"
    /\ pc = "fatal"
    /\ Len(buffer_list[pass[i].list][i]) > Len(pass[i].pre_growth)
    /\ Successors(map)[buffer_list[pass[i].list][i][Len(buffer_list[pass[i].list][i])]] = <<>>
    /\ \E o \in VehicleIndices : pass[o].tick < tick

\* C19 (as claimed): on every map in which each waypoint has at least one
\* successor, maps with cycles included, the growth loop of a vehicle's pass
\* terminates after finitely many appends and the pass goes on to emit its
\* frame entries.
C19_GrowthTerminates ==
  \A i \in VehicleIndices :
    (ValidMap(map) /\ pass[i].status # "none") =>
      /\ pass[i].status = "done"
      /\ pass[i].tick = wrote.planner.tick =>
           planner_frame[wrote.planner.frame][i].actor = ActorAt(i)

\* C20: after any sequence of ticks, with any mix of resync, trim, reseed,
\* lane-change redirect and growth and any pattern of sent and skipped
\* collision deliveries, both copies of every vehicle's horizon buffer are
\* connected forward paths: each entry other than the front is one of the
\* successors of the entry immediately before it.
C20_BuffersAreForwardPaths ==
  \A f \in FrameNames : \A i \in VehicleIndices :
    \A j \in 2..Len(buffer_list[f][i]) :
      \E k \in 1..Len(Successors(map)[buffer_list[f][i][j - 1]]) :
        Successors(map)[buffer_list[f][i][j - 1]][k] = buffer_list[f][i][j]

\* C20 witness: in the tick after a skipped collision delivery a pass
\* resynchronised, trimmed and completed, and the two copies of the
\* vehicle's buffer are different paths of several waypoints.
C20_Witness ==
  \E i \in VehicleIndices :
    /\ pc = "action"
    /\ tick >= 2
    /\ nsend.collision = 0
    /\ pass[i].tick = tick
    /\ pass[i].status = "done"
    /\ pass[i].resynced
    /\ pass[i].purged > 0
    /\ Len(buffer_list["a"][i]) > 1
    /\ Len(buffer_list["b"][i]) > 1
    /\ buffer_list["a"][i] # buffer_list["b"][i]

====
